---- MODULE Spec2Model ----
(***************************************************************************)
(* The mint-eligibility widget of src/components/StreamlinedNFTMinting.tsx *)
(* as a state machine: the component's React state, the values its hooks   *)
(* deliver, the localStorage entries it reads and writes, and the async    *)
(* handlers that are between their `await` and their `finally`.            *)
(***************************************************************************)
EXTENDS Integers, Sequences, FiniteSets

(* ------------------------------ bounds -------------------------------- *)

\* handlers of torn-down component instances that may still be pending
MaxOrphans == 1

\* balances modelled above the price: PRICE .. PRICE + MaxOver
MaxOver == 1

(* ----------------------------- constants ------------------------------ *)

\* BigInt(10 * 10**6)
PRICE == 10000000

\* chain?.id when the hook delivers no chain
UNDEFINED == 0

\* address when the hook delivers none
NoAddress == "undefined"

MAINNET_ID == 1

BASE_ID == 8453

NULL == "null"

contractAddress == "0x1234567890123456789012345678901234567890"

ChainNames == {"ethereum", "base"}

\* the wallet addresses the adapter delivers
Addresses == {"0xA", "0xB"}

ChainIds == {MAINNET_ID, BASE_ID}

\* `usdcBalance`: undefined while loading, else { value }
NoBalance == [defined |-> FALSE, value |-> 0]

Balances ==
  {NoBalance} \cup
  {[defined |-> TRUE, value |-> v] : v \in (PRICE - 1)..(PRICE + MaxOver)}

FAILED_SDK == "Farcaster SDK not loaded"

FAILED_CONNECT == "Failed to connect wallet"

FAILED_MINT == "Minting failed. Please try again."

\* the message built from targetChain.name instead of selectedChain
SwitchFailedMessage_chainName(c) ==
  IF c = "ethereum" THEN "Failed to switch to Ethereum" ELSE "Failed to switch to Base"

\* `Failed to switch to ${selectedChain}`
SwitchFailedMessage(c) ==
  IF c = "ethereum" THEN "Failed to switch to ethereum" ELSE "Failed to switch to base"

\* `minted_${contractAddress}_${address}`
key(a) == <<"minted", contractAddress, a>>

Keys == {key(a) : a \in Addresses}

(* ------------------------------- state -------------------------------- *)

VARIABLES
  selectedChain,  \* useState<"ethereum" | "base">("base")
  isLoading,      \* useState(false)
  error,          \* useState<string | null>(null)
  success,        \* useState(false)
  hasMinted,      \* useState(false)
  isSDKLoaded,    \* useMiniAppSdk()
  isConnected,    \* useAccount()
  address,        \* useAccount()
  chain,          \* useAccount(): chain?.id
  usdcBalance,    \* useBalance()
  localStorage,   \* the persistent store: key -> "true" | null
  inflight,       \* how many handlers of each kind are suspended at their await
  timers          \* pending setTimeout(() => setSuccess(false), 5000)

vars ==
  <<selectedChain, isLoading, error, success, hasMinted, isSDKLoaded, isConnected,
    address, chain, usdcBalance, localStorage, inflight, timers>>

component == <<selectedChain, isLoading, error, success, hasMinted>>

hooks == <<isSDKLoaded, isConnected, address, chain, usdcBalance>>

(* ------------------------- derived render values ----------------------- *)

\* findChainByName(selectedChain)
findChainByName(name) ==
  IF name = "ethereum" THEN [id |-> MAINNET_ID, name |-> "Ethereum"]
  ELSE [id |-> BASE_ID, name |-> "Base"]

targetChain == findChainByName(selectedChain)

isCorrectNetwork == chain = targetChain.id

\* the comparison written with a strict bound
hasEnoughUSDC_strict == usdcBalance.defined /\ usdcBalance.value > PRICE

hasEnoughUSDC == usdcBalance.defined /\ usdcBalance.value >= PRICE

canMint == isConnected /\ isCorrectNetwork /\ hasEnoughUSDC /\ ~hasMinted /\ ~isLoading

getItem(k) == localStorage[k]

\* setItem that drops every other entry of the store
setItem_replaceStore(k, v) == [j \in Keys |-> IF j = k THEN v ELSE NULL]

setItem(k, v) == [localStorage EXCEPT ![k] = v]

\* `Switch to ${targetChain?.name}`
SwitchLabel(name) == IF name = "Ethereum" THEN "Switch to Ethereum" ELSE "Switch to Base"

\* getButtonText with the minted check moved above the network check
getButtonText_mintedFirst ==
  IF ~isConnected THEN "Connect Wallet"
  ELSE IF hasMinted THEN "Already Minted"
  ELSE IF ~isCorrectNetwork THEN SwitchLabel(targetChain.name)
  ELSE IF ~hasEnoughUSDC THEN "Insufficient USDC"
  ELSE "Mint NFT"

getButtonText ==
  IF ~isConnected THEN "Connect Wallet"
  ELSE IF ~isCorrectNetwork THEN SwitchLabel(targetChain.name)
  ELSE IF hasMinted THEN "Already Minted"
  ELSE IF ~hasEnoughUSDC THEN "Insufficient USDC"
  ELSE "Mint NFT"

\* the label shown in place of the button text while isLoading
loadingLabel ==
  IF ~isConnected THEN "Connecting..."
  ELSE IF ~isCorrectNetwork THEN "Switching..."
  ELSE "Minting..."

getButtonAction ==
  IF ~isConnected THEN "handleConnectWallet"
  ELSE IF ~isCorrectNetwork THEN "handleSwitchNetwork"
  ELSE "handleMint"

\* the action Button's `disabled` expression
disabled ==
  hasMinted \/ isLoading \/ (~canMint /\ isConnected /\ isCorrectNetwork /\ ~hasEnoughUSDC)

(* -------------------------- suspended handlers -------------------------- *)

\* a handler suspended at its await, with what its closure captured and uses:
\* live is FALSE once the component instance that started it is torn down
Pending(kind, a, c) == [kind |-> kind, address |-> a, chain |-> c, live |-> TRUE]

LiveEntries ==
  {Pending("connect", NoAddress, "none")} \cup
  {Pending("switch", NoAddress, c) : c \in ChainNames} \cup
  {Pending("mint", a, "none") : a \in Addresses}

\* after teardown the set-state calls of a handler do nothing, so of its
\* closure only the address a mint writes to the store still matters
Orphan(p) == [p EXCEPT !.live = FALSE, !.chain = "none"]

Entries == LiveEntries \cup {Orphan(p) : p \in LiveEntries}

RECURSIVE SumOver(_, _)
SumOver(f, S) ==
  IF S = {} THEN 0
  ELSE LET x == CHOOSE y \in S : TRUE IN f[x] + SumOver(f, S \ {x})

\* the number of connect, switch and mint actions in flight
InFlight == SumOver(inflight, Entries)

Started(p) == [inflight EXCEPT ![p] = @ + 1]

Settled(p) == [inflight EXCEPT ![p] = @ - 1]

(* ------------------------------- Init --------------------------------- *)

Init ==
  /\ selectedChain = "base"
  /\ isLoading = FALSE
  /\ error = NULL
  /\ success = FALSE
  /\ hasMinted = FALSE
  /\ isSDKLoaded = FALSE
  /\ isConnected = FALSE
  /\ address = NoAddress
  /\ chain = UNDEFINED
  /\ usdcBalance = NoBalance
  /\ localStorage = [k \in Keys |-> NULL]
  /\ inflight = [e \in Entries |-> 0]
  /\ timers = 0

(* ------------------------- the hooks' deliveries ----------------------- *)

\* the effect on [address, isConnected, contractAddress]: the value it leaves in hasMinted
alreadyMinted(conn, a, prev) ==
  IF a # NoAddress /\ conn THEN getItem(key(a)) = "true" ELSE prev

\* useAccount() delivers a new { isConnected, address, chain }; the effect runs
\* when address or isConnected changed. chain is read only under isConnected.
\* The balance of a new address is undefined until BalanceFetched delivers it.
AccountChanged ==
  \E conn \in BOOLEAN, a \in Addresses \cup {NoAddress}, ch \in ChainIds \cup {UNDEFINED} :
    /\ conn => a # NoAddress
    /\ ~conn => ch = UNDEFINED
    /\ <<conn, a, ch>> # <<isConnected, address, chain>>
    /\ isConnected' = conn
    /\ address' = a
    /\ chain' = ch
    /\ usdcBalance' = IF a = address THEN usdcBalance ELSE NoBalance
    /\ hasMinted' =
         IF <<a, conn>> # <<address, isConnected>>
         THEN alreadyMinted(conn, a, hasMinted) ELSE hasMinted
    /\ UNCHANGED <<selectedChain, isLoading, error, success, isSDKLoaded,
                   localStorage, inflight, timers>>

\* useBalance() delivers a new value for (address, token, chainId)
BalanceFetched ==
  \E b \in Balances :
    /\ address # NoAddress
    /\ b # usdcBalance
    /\ usdcBalance' = b
    /\ UNCHANGED <<component, isSDKLoaded, isConnected, address, chain,
                   localStorage, inflight, timers>>

\* useMiniAppSdk() reports the SDK loaded
SdkLoaded ==
  /\ ~isSDKLoaded
  /\ isSDKLoaded' = TRUE
  /\ UNCHANGED <<component, isConnected, address, chain, usdcBalance,
                 localStorage, inflight, timers>>

\* a chain button: onClick={() => setSelectedChain(chainName)} disabled={isLoading};
\* the balance on the newly selected chain is undefined until it is delivered
SelectChain ==
  \E c \in ChainNames :
    /\ ~isLoading
    /\ c # selectedChain
    /\ selectedChain' = c
    /\ usdcBalance' = NoBalance
    /\ UNCHANGED <<isLoading, error, success, hasMinted, isSDKLoaded, isConnected,
                   address, chain, localStorage, inflight, timers>>

(* ------------------------------ handlers ------------------------------ *)

\* handleConnectWallet up to `await connect({ connector })`
handleConnectWallet ==
  /\ IF ~isSDKLoaded
     THEN /\ error' = FAILED_SDK
          /\ UNCHANGED <<isLoading, inflight>>
     ELSE /\ isLoading' = TRUE
          /\ error' = NULL
          /\ inflight' = Started(Pending("connect", NoAddress, "none"))
  /\ UNCHANGED <<selectedChain, success, hasMinted, hooks, localStorage, timers>>

\* handleSwitchNetwork up to `await switchChain({ chainId: targetChain.id })`
handleSwitchNetwork ==
  /\ isLoading' = TRUE
  /\ error' = NULL
  /\ inflight' = Started(Pending("switch", NoAddress, selectedChain))
  /\ UNCHANGED <<selectedChain, success, hasMinted, hooks, localStorage, timers>>

\* the guard without its hasMinted test
mintGuard_noMintedTest == ~isConnected \/ address = NoAddress

\* `if (!isConnected || !address || hasMinted) return;`
mintGuard == ~isConnected \/ address = NoAddress \/ hasMinted

\* handleMint up to `await new Promise(resolve => setTimeout(resolve, 2000))`
handleMint ==
  /\ IF mintGuard
     THEN UNCHANGED <<isLoading, error, inflight>>
     ELSE /\ isLoading' = TRUE
          /\ error' = NULL
          /\ inflight' = Started(Pending("mint", address, "none"))
  /\ UNCHANGED <<selectedChain, success, hasMinted, hooks, localStorage, timers>>

\* a click on the action Button: onClick={getButtonAction()} unless disabled
ClickConnect == ~disabled /\ getButtonAction = "handleConnectWallet" /\ handleConnectWallet

ClickSwitch == ~disabled /\ getButtonAction = "handleSwitchNetwork" /\ handleSwitchNetwork

ClickMint == ~disabled /\ getButtonAction = "handleMint" /\ handleMint

\* handleMint called although the button does not offer it (the defensive guard)
CallMintGuarded == (~isConnected \/ address = NoAddress \/ hasMinted) /\ handleMint

(* ------------------- the continuations after the await ------------------ *)

\* a finally block that leaves the flag as it is
finally_keepsLoading(p) == isLoading' = isLoading

\* a catch block whose message was pasted from handleConnectWallet
catch_pastedMessage(p) ==
  error' =
    IF ~p.live THEN error
    ELSE IF p.kind = "mint" THEN FAILED_MINT
    ELSE FAILED_CONNECT

\* `finally { setIsLoading(false) }`; a set-state of a torn-down instance does nothing
finally(p) == isLoading' = IF p.live THEN FALSE ELSE isLoading

\* `catch (err) { setError(...) }` of the handler that started p
catch(p) ==
  error' =
    IF ~p.live THEN error
    ELSE IF p.kind = "connect" THEN FAILED_CONNECT
    ELSE IF p.kind = "switch" THEN SwitchFailedMessage(p.chain)
    ELSE FAILED_MINT

\* a handler that marks the mint before its store write has succeeded
Rejected_mintedFirst(p) ==
  /\ inflight[p] > 0
  /\ inflight' = Settled(p)
  /\ catch(p)
  /\ finally(p)
  /\ hasMinted' = IF p.live /\ p.kind = "mint" THEN TRUE ELSE hasMinted
  /\ UNCHANGED <<selectedChain, success, hooks, localStorage, timers>>

\* the awaited connect / switchChain call of p returns: only the finally block runs
Resolved(p) ==
  /\ p.kind \in {"connect", "switch"}
  /\ inflight[p] > 0
  /\ inflight' = Settled(p)
  /\ finally(p)
  /\ UNCHANGED <<selectedChain, error, success, hasMinted, hooks, localStorage, timers>>

\* farcasterFrame(), connect or switchChain of p throws; or, for a mint, the delay
\* is over and localStorage.setItem throws (quota, storage denied): catch, finally
Rejected(p) ==
  /\ inflight[p] > 0
  /\ inflight' = Settled(p)
  /\ catch(p)
  /\ finally(p)
  /\ UNCHANGED <<selectedChain, success, hasMinted, hooks, localStorage, timers>>

\* a handler that builds the key from the address connected at completion
Minted_currentAddress(p) ==
  /\ p.kind = "mint"
  /\ inflight[p] > 0
  /\ inflight' = Settled(p)
  /\ localStorage' = setItem(key(IF address # NoAddress THEN address ELSE p.address), "true")
  /\ hasMinted' = IF p.live THEN TRUE ELSE hasMinted
  /\ success' = IF p.live THEN TRUE ELSE success
  /\ timers' = IF p.live THEN timers + 1 ELSE timers
  /\ finally(p)
  /\ UNCHANGED <<selectedChain, error, hooks>>

\* a handler that is cancelled by teardown: it returns without writing
Minted_cancelledByTeardown(p) ==
  /\ p.kind = "mint"
  /\ inflight[p] > 0
  /\ inflight' = Settled(p)
  /\ localStorage' = IF p.live THEN setItem(key(p.address), "true") ELSE localStorage
  /\ hasMinted' = IF p.live THEN TRUE ELSE hasMinted
  /\ success' = IF p.live THEN TRUE ELSE success
  /\ timers' = IF p.live THEN timers + 1 ELSE timers
  /\ finally(p)
  /\ UNCHANGED <<selectedChain, error, hooks>>

\* the 2000 ms delay of p is over and localStorage.setItem returns
Minted(p) ==
  /\ p.kind = "mint"
  /\ inflight[p] > 0
  /\ inflight' = Settled(p)
  /\ localStorage' = setItem(key(p.address), "true")
  /\ hasMinted' = IF p.live THEN TRUE ELSE hasMinted
  /\ success' = IF p.live THEN TRUE ELSE success
  /\ timers' = IF p.live THEN timers + 1 ELSE timers
  /\ finally(p)
  /\ UNCHANGED <<selectedChain, error, hooks>>

AdapterResolved == \E p \in Entries : Resolved(p)

AdapterRejected == \E p \in Entries : p.kind # "mint" /\ Rejected(p)

MintResolved == \E p \in Entries : Minted(p)

MintRejected == \E p \in Entries : p.kind = "mint" /\ Rejected(p)

\* `setTimeout(() => setSuccess(false), 5000)` fires
SuccessTimeout ==
  /\ timers > 0
  /\ timers' = timers - 1
  /\ success' = FALSE
  /\ UNCHANGED <<selectedChain, isLoading, error, hasMinted, hooks, localStorage, inflight>>

(* ------------------------- teardown and mount --------------------------- *)

\* the component is unmounted and mounted again: every useState starts from its
\* initial value, the effect runs, and what was pending keeps running unobserved
Remount ==
  /\ InFlight <= MaxOrphans
  /\ selectedChain' = "base"
  /\ isLoading' = FALSE
  /\ error' = NULL
  /\ success' = FALSE
  /\ hasMinted' = alreadyMinted(isConnected, address, FALSE)
  /\ inflight' =
       [e \in Entries |->
          IF e.live THEN 0
          ELSE inflight[e] + SumOver(inflight, {l \in LiveEntries : Orphan(l) = e})]
  /\ timers' = 0
  /\ UNCHANGED <<hooks, localStorage>>

(* ---------------------------- specification ---------------------------- *)

\* the handler p runs from its await to its end, one way or the other
Settle(p) == Resolved(p) \/ Rejected(p) \/ Minted(p)

Next ==
  \/ AccountChanged
  \/ BalanceFetched
  \/ SdkLoaded
  \/ SelectChain
  \/ ClickConnect
  \/ ClickSwitch
  \/ ClickMint
  \/ CallMintGuarded
  \/ AdapterResolved
  \/ AdapterRejected
  \/ MintResolved
  \/ MintRejected
  \/ SuccessTimeout
  \/ Remount

Spec == Init /\ [][Next]_vars

\* every awaited call and the simulated delay eventually settle
FairSpec == Spec /\ WF_vars(\E p \in LiveEntries : Settle(p))

(* ------------------------------- claims -------------------------------- *)

\* the MintUIState a button label stands for
StateOf(text) ==
  CASE text = "Connect Wallet" -> "NeedsConnect"
    [] text \in {"Switch to Ethereum", "Switch to Base"} -> "NeedsNetworkSwitch"
    [] text = "Already Minted" -> "AlreadyMinted"
    [] text = "Insufficient USDC" -> "InsufficientFunds"
    [] text = "Mint NFT" -> "ReadyToMint"
    [] OTHER -> "none"

\* the chain id each selectable chain stands for
ExpectedId(name) == IF name = "ethereum" THEN MAINNET_ID ELSE BASE_ID

BelowPrice == ~usdcBalance.defined \/ usdcBalance.value < PRICE

MintUIState == StateOf(getButtonText)

\* C1: the state on the button is the first match of: not connected, active
\* chain differs from the selected chain's id, minted flag, balance undefined
\* or below the price, else ReadyToMint
C1_PriorityOrder ==
  /\ ~isConnected => MintUIState = "NeedsConnect"
  /\ isConnected /\ chain # ExpectedId(selectedChain) => MintUIState = "NeedsNetworkSwitch"
  /\ isConnected /\ chain = ExpectedId(selectedChain) /\ hasMinted
       => MintUIState = "AlreadyMinted"
  /\ isConnected /\ chain = ExpectedId(selectedChain) /\ ~hasMinted /\ BelowPrice
       => MintUIState = "InsufficientFunds"
  /\ isConnected /\ chain = ExpectedId(selectedChain) /\ ~hasMinted /\ ~BelowPrice
       => MintUIState = "ReadyToMint"

\* C1 witness: wrong chain with the minted flag set and a sufficient balance
C1_Witness ==
  /\ isConnected /\ chain # ExpectedId(selectedChain) /\ hasMinted /\ ~BelowPrice
  /\ MintUIState = "NeedsNetworkSwitch"

\* C2: with nothing in flight the button offers the action of the derived
\* state, and is disabled exactly in AlreadyMinted and InsufficientFunds
C2_ActionByState ==
  ~isLoading =>
    /\ MintUIState = "NeedsConnect"
         => ~disabled /\ getButtonAction = "handleConnectWallet"
    /\ MintUIState = "NeedsNetworkSwitch"
         => ~disabled /\ getButtonAction = "handleSwitchNetwork"
    /\ MintUIState = "ReadyToMint" => ~disabled /\ getButtonAction = "handleMint"
    /\ disabled <=> MintUIState \in {"AlreadyMinted", "InsufficientFunds"}

\* C3: the already-minted determination equals the persisted MintRecord of
\* the connected address
C3_MintedIsRecord ==
  isConnected /\ address # NoAddress => (hasMinted <=> getItem(key(address)) = "true")

\* C4: once the record of address a is true, every evaluation with a connected
\* on the selected chain yields AlreadyMinted
C4_MintedStaysMinted ==
  \A a \in Addresses :
    getItem(key(a)) = "true" /\ isConnected /\ address = a /\ isCorrectNetwork
      => MintUIState = "AlreadyMinted"

\* C5: a MintRecord entry that is true stays true, and an entry only ever
\* changes to "true"
C5_RecordMonotonic ==
  [][\A k \in Keys :
       /\ localStorage[k] = "true" => localStorage'[k] = "true"
       /\ localStorage'[k] \in {localStorage[k], "true"}]_vars

\* C5 witness: a record written by a mint has outlived an account change
C5_Witness ==
  \E a \in Addresses :
    getItem(key(a)) = "true" /\ isConnected /\ address # a /\ ~hasMinted

\* C6: no mint completes with the success message for an address whose
\* MintRecord was already true
C6_MintAtMostOnce ==
  [][\A p \in LiveEntries : Minted(p) => getItem(key(p.address)) # "true"]_vars

\* C7: handleMint called while not connected, without address or with the
\* minted flag set changes nothing and starts no timer
C7_GuardedMintIsNoop ==
  [][(~isConnected \/ address = NoAddress \/ hasMinted) /\ handleMint
       => UNCHANGED <<isLoading, error, success, hasMinted, localStorage, inflight, timers>>]_vars

\* C7 witness: the button is bound to handleMint and the minted flag is set
C7_Witness ==
  /\ isConnected /\ hasMinted /\ getButtonAction = "handleMint" /\ ~isLoading
  /\ ENABLED CallMintGuarded

\* C8: at most one connect, switch or mint action is in flight
C8_OneInFlight == InFlight <= 1

\* the live-instance form of C8: of the handlers the mounted instance
\* started, at most one is suspended, and exactly then isLoading is set
LiveInFlight == SumOver(inflight, LiveEntries)

C8_OneLiveInFlight == LiveInFlight <= 1 /\ (isLoading <=> LiveInFlight = 1)

\* the message the claim names for a failing action of each kind
FailureMessage(kind) ==
  IF kind = "connect" THEN "Failed to connect wallet"
  ELSE IF kind = "switch"
  THEN (IF selectedChain = "ethereum" THEN "Failed to switch to ethereum"
        ELSE "Failed to switch to base")
  ELSE "Minting failed. Please try again."

\* a handler passes its guards and reaches its try block
ActionStarts ==
  \/ isSDKLoaded /\ handleConnectWallet
  \/ handleSwitchNetwork
  \/ ~mintGuard /\ handleMint

\* C9: a failing connect, switch or mint leaves exactly its own message as the
\* error, and the start of an action clears the error shown before
C9_FailureMessage ==
  [][/\ \A p \in LiveEntries : Rejected(p) => error' = FailureMessage(p.kind)
     /\ ActionStarts => error' = NULL]_vars

\* C9 witness: a chain switch to the selected chain has failed and ended
C9_Witness ==
  /\ error = "Failed to switch to ethereum" /\ selectedChain = "ethereum"
  /\ ~isLoading /\ isConnected /\ ~isCorrectNetwork

\* a step that makes a new adapter call or starts a new simulated delay
NewCall == \E p \in Entries : inflight'[p] > inflight[p] /\ p.live

UserClick == ClickConnect \/ ClickSwitch \/ ClickMint

\* C10: the in-flight flag of a started action is eventually cleared, and a
\* new adapter call is only ever made by a click of the user
C10_FlagClearsNoRetry ==
  /\ isLoading ~> ~isLoading
  /\ [][NewCall => UserClick]_vars

\* C10 witness: an action has failed and ended, the flag is clear and nothing
\* is in flight
C10_Witness == error = "Failed to connect wallet" /\ ~isLoading /\ InFlight = 0

\* C11 as claimed: the error is absent or one of the three failure messages
C11_ThreeKinds ==
  error \in {"null", "Failed to connect wallet", "Failed to switch to ethereum",
             "Failed to switch to base", "Minting failed. Please try again."}

\* C11 as amended: the three failure messages, or the message of a connect
\* requested before the SDK has loaded
C11_FourKinds ==
  error \in {"null", "Failed to connect wallet", "Failed to switch to ethereum",
             "Failed to switch to base", "Minting failed. Please try again.",
             "Farcaster SDK not loaded"}

\* C11 witness: connect was clicked before the SDK had loaded
C11_Witness ==
  error = "Farcaster SDK not loaded" /\ ~isSDKLoaded /\ ~isConnected /\ ~isLoading

\* what a failing action must leave as it found it
PreActionState == <<selectedChain, hasMinted, success, localStorage>>

C13_SuccessLastsItsDelay ==
  [][/\ \A p \in LiveEntries : Minted(p) => success'
     /\ (success /\ ~success') => timers' = 0]_vars

\* C14: connected on the selected chain with the minted flag false, a balance
\* that is undefined or at most 9,999,999 gives InsufficientFunds and a balance
\* of 10,000,000 or more gives ReadyToMint
C14_NonStrictBound ==
  (isConnected /\ chain = ExpectedId(selectedChain) /\ ~hasMinted) =>
    /\ (~usdcBalance.defined \/ usdcBalance.value <= 9999999)
         => MintUIState = "InsufficientFunds"
    /\ (usdcBalance.defined /\ usdcBalance.value >= 10000000)
         => MintUIState = "ReadyToMint"

\* C14 witness: the balance is exactly the price and the state is ReadyToMint
C14_Witness ==
  /\ isConnected /\ chain = ExpectedId(selectedChain) /\ ~hasMinted
  /\ usdcBalance.defined /\ usdcBalance.value = 10000000
  /\ MintUIState = "ReadyToMint"

\* a click on the action button that starts a mint
MintStartedByClick == ClickMint /\ NewCall

\* C15: a click starts a mint only when the wallet is connected, the active
\* chain is the selected chain, the minted flag is false, no action is in
\* flight and the last fetched balance is at least the price
C15_MintClickPreconditions ==
  [][MintStartedByClick =>
       /\ isConnected /\ address # NoAddress
       /\ chain = ExpectedId(selectedChain)
       /\ ~hasMinted
       /\ InFlight = 0
       /\ usdcBalance.defined /\ usdcBalance.value >= 10000000]_vars

\* C15 for the mounted instance alone: the same with "no action in flight" read
\* as the in-flight flag and the handlers of this instance
C15_MintClickWhenCanMint ==
  [][MintStartedByClick =>
       /\ isConnected /\ address # NoAddress
       /\ chain = ExpectedId(selectedChain)
       /\ ~hasMinted
       /\ ~isLoading /\ LiveInFlight = 0
       /\ usdcBalance.defined /\ usdcBalance.value >= 10000000]_vars

\* C16: a mint carries the address connected at the click that requested it,
\* and its completion sets the MintRecord of that address and no other entry,
\* whatever address is connected by then
C16_WritesRequestersRecord ==
  [][/\ \A p \in LiveEntries :
          (p.kind = "mint" /\ inflight'[p] > inflight[p]) => p.address = address
     /\ \A p \in Entries :
          Minted(p) =>
            /\ localStorage'[key(p.address)] = "true"
            /\ \A k \in Keys \ {key(p.address)} : localStorage'[k] = localStorage[k]]_vars

\* C16 witness: the mint requested by 0xB has completed while 0xA is connected;
\* the record of 0xB is set and the record of 0xA is not
C16_Witness ==
  /\ isConnected /\ address = "0xA"
  /\ getItem(key("0xB")) = "true" /\ getItem(key("0xA")) = "null"
  /\ hasMinted /\ success /\ InFlight = 0

\* the in-flight label that names an action of each kind
KindLabel(kind) ==
  IF kind = "connect" THEN "Connecting..."
  ELSE IF kind = "switch" THEN "Switching..."
  ELSE "Minting..."

\* C17: while an action is in flight the label shown names the kind of the
\* action that was started
C17_LabelNamesStartedKind ==
  isLoading => \A p \in LiveEntries : inflight[p] > 0 => loadingLabel = KindLabel(p.kind)

\* the mint requested by address a, before and after teardown
MintOf(a) == Pending("mint", a, "none")

\* C18: teardown keeps a pending mint pending; the mint can still complete, and
\* its completion sets the record of the requesting address; a mount with an
\* address connected on the selected chain whose record is set shows
\* AlreadyMinted
C18_NoCancellation ==
  [][/\ Remount =>
          \A a \in Addresses : inflight[MintOf(a)] > 0 => inflight'[Orphan(MintOf(a))] > 0
     /\ \A a \in Addresses :
          /\ inflight[Orphan(MintOf(a))] > 0 => ENABLED Minted(Orphan(MintOf(a)))
          /\ Minted(Orphan(MintOf(a))) => localStorage'[key(a)] = "true"
     /\ (Remount /\ isConnected' /\ address' \in Addresses
           /\ localStorage'[key(address')] = "true" /\ chain' = ExpectedId(selectedChain'))
          => hasMinted' /\ MintUIState' = "AlreadyMinted"]_vars

\* C18 witness: the mint of a torn-down instance has completed; the record of
\* the connected address is set though the mounted instance never minted
C18_Witness ==
  /\ isConnected /\ address \in Addresses /\ getItem(key(address)) = "true"
  /\ ~hasMinted /\ ~isLoading /\ InFlight = 0

====
